---- MODULE Spec2Model ----
(***************************************************************************)
(* Certificate issuance and verification pipeline of the data-wiping       *)
(* certification system: DataWipingCertificationSystem                     *)
(* (main_certificate_system.py) on top of BlockchainIntegration            *)
(* (blockchain_integration.py), called from the request threads of the     *)
(* Flask portal (web_app.py).  The ledger node, the deployed contract, the *)
(* pinning gateway and the file system are the environment: every call to  *)
(* them draws its outcome from the outcomes that call can have.            *)
(***************************************************************************)
EXTENDS Integers, Sequences, FiniteSets, TLC

(* ------------------------------------------------------------------ *)
(* Bounds and program constants                                        *)
(* ------------------------------------------------------------------ *)

\* Number of process_wipe_data calls started in one behaviour.
MaxCalls == 2

\* blockchain_integration.py:227  'gas': gas_estimate + 50000
GasBuffer == 50000

\* Request threads of the portal (Flask serves each request on its own thread).
Procs == {"w1", "w2"}

\* Values the node can answer with.
GasEstimates == {2, 3}
GasPrices == {1, 2}
Balances == {3, 200000}

\* Python None, where a string is expected.
None == "<None>"

CertIds == {"c1", "c2"}

(* ------------------------------------------------------------------ *)
(* Python values of a wipe record                                      *)
(* ------------------------------------------------------------------ *)

PyAbsent == [t |-> "absent", v |-> ""]
PyStr(s) == [t |-> "str", v |-> s]
PyBool(b) == [t |-> "bool", v |-> IF b THEN "True" ELSE "False"]

\* bool(x) of Python: the truth value `not x` negates.
Truthy(x) ==
    CASE x.t = "bool" -> x.v = "True"
      [] x.t = "str" -> x.v # ""
      [] OTHER -> FALSE

\* device_details: a dict (with or without 'serial'), or a value that is no dict.
DictDetails(serial) == [t |-> "dict", serial |-> serial]
StrDetails == [t |-> "str", serial |-> PyAbsent]
NoDetails == [t |-> "absent", serial |-> PyAbsent]

\* The record of main() (main_certificate_system.py:208-239), reduced to the
\* fields the pipeline reads.
MockWipeData(cid) ==
    [kind |-> "dict",
     certificate_id |-> PyStr(cid),
     device_details |-> DictDetails(PyStr("S1")),
     timestamp_utc |-> PyStr("20250101T000000Z"),
     success |-> PyBool(TRUE),
     status |-> PyStr("Success")]

\* A JSON value that is not an object (request.get_json() may return a list).
ListInput ==
    [kind |-> "list",
     certificate_id |-> PyAbsent,
     device_details |-> NoDetails,
     timestamp_utc |-> PyAbsent,
     success |-> PyAbsent,
     status |-> PyAbsent]

\* The records handed to process_wipe_data.
Records ==
    { MockWipeData("c1"), MockWipeData("c2"), ListInput,
      [MockWipeData("c1") EXCEPT !.device_details = StrDetails],
      [MockWipeData("c1") EXCEPT !.device_details = DictDetails(PyAbsent)],
      [MockWipeData("c1") EXCEPT !.timestamp_utc = PyAbsent],
      [MockWipeData("c1") EXCEPT !.success = PyBool(FALSE)] }

NoRecord == [ListInput EXCEPT !.kind = "none"]

RequiredFields == <<"certificate_id", "device_details", "timestamp_utc", "success", "status">>

\* `field in wipe_data` for a dict.
HasField(wd, f) ==
    CASE f = "certificate_id" -> wd.certificate_id.t # "absent"
      [] f = "device_details" -> wd.device_details.t # "absent"
      [] f = "timestamp_utc" -> wd.timestamp_utc.t # "absent"
      [] f = "success" -> wd.success.t # "absent"
      [] f = "status" -> wd.status.t # "absent"

\* validate_wipe_data: "true", "false", or "raise" (device_details.get on a
\* value that is no dict).  `field not in [..]` is true for a list, so a list
\* is reported as missing the first required field.
validate_wipe_data_nosuccess(wd) ==
    IF wd.kind # "dict" THEN "false"
    ELSE IF \E i \in 1..Len(RequiredFields) : ~HasField(wd, RequiredFields[i]) THEN "false"
    ELSE IF wd.device_details.t # "dict" THEN "raise"
    ELSE IF ~Truthy(wd.device_details.serial) THEN "false"
    ELSE "true"

validate_wipe_data_noserial(wd) ==
    IF wd.kind # "dict" THEN "false"
    ELSE IF \E i \in 1..Len(RequiredFields) : ~HasField(wd, RequiredFields[i]) THEN "false"
    ELSE IF wd.device_details.t # "dict" THEN "raise"
    ELSE IF ~Truthy(wd.success) THEN "false"
    ELSE "true"

validate_wipe_data(wd) ==
    IF wd.kind # "dict" THEN "false"
    ELSE IF \E i \in 1..Len(RequiredFields) : ~HasField(wd, RequiredFields[i]) THEN "false"
    ELSE IF wd.device_details.t # "dict" THEN "raise"
    ELSE IF ~Truthy(wd.device_details.serial) THEN "false"
    ELSE IF ~Truthy(wd.success) THEN "false"
    ELSE "true"

\* wipe_data.get('certificate_id', default) on a dict.
GetCertificateId(wd, default) ==
    IF wd.certificate_id.t = "absent" THEN default ELSE wd.certificate_id.v

\* generate_certificate: output_filename = f"certificate_{certificate_id}.pdf"
PdfFilename(wd) == GetCertificateId(wd, "unknown")

(* ------------------------------------------------------------------ *)
(* Pure helpers of BlockchainIntegration                               *)
(* ------------------------------------------------------------------ *)

\* web3.from_wei(number, 'ether'): an exact decimal (the division is carried
\* out with 999 digits of precision), kept as the amount with its unit.
FromWei(number, unit) == [wei |-> number, unit |-> unit]

\* a < b for two amounts of the same unit.
LessThan(a, b) == a.wei < b.wei

\* gas_estimate of estimate_gas_cost when estimation failed (Python None).
NoneGas == -1
NoQuote == [gas_estimate |-> NoneGas, cost_eth |-> FromWei(0, "ether")]

\* estimate_gas_cost: (gas_estimate, cost_eth), or (None, None) when
\* estimate_gas or the gas price read raised.
estimate_gas_cost(raised, gas_estimate, gas_price) ==
    IF raised THEN NoQuote
    ELSE [gas_estimate |-> gas_estimate,
          cost_eth |-> FromWei(gas_estimate * gas_price, "ether")]

\* `not gas_estimate`
EstimateMissing_never(q) == FALSE

EstimateMissing(q) == q.gas_estimate = NoneGas \/ q.gas_estimate = 0

\* `balance_eth < cost_eth`
InsufficientBalance_never(balance_eth, cost_eth) == FALSE

InsufficientBalance_reversed(balance_eth, cost_eth) == LessThan(cost_eth, balance_eth)

InsufficientBalance(balance_eth, cost_eth) == LessThan(balance_eth, cost_eth)

NoTransaction == [gas |-> 0, gasPrice |-> 0, nonce |-> -1]

\* function_call.build_transaction({...})
build_transaction_nomargin(gas_estimate, gas_price, nonce) ==
    [gas |-> gas_estimate, gasPrice |-> gas_price, nonce |-> nonce]

build_transaction(gas_estimate, gas_price, nonce) ==
    [gas |-> gas_estimate + GasBuffer, gasPrice |-> gas_price, nonce |-> nonce]

\* Content identifiers of the rendered artifacts, by the call that rendered them.
CidTable == <<"Qm1", "Qm2", "Qm3", "Qm4">>
\* tx_hash.hex() of the transactions, by order of submission.
HexTable == <<"0xa1", "0xa2", "0xa3", "0xa4">>
Hex(h) == HexTable[h]

(* ------------------------------------------------------------------ *)
(* State                                                               *)
(* ------------------------------------------------------------------ *)

VARIABLES
    pc,           \* each thread's position in process_wipe_data
    callNo,       \* the number of the call a thread is serving (0: none yet)
    wipe_data,    \* the argument of the call
    ipfs_hash,    \* local of process_wipe_data
    quote,        \* (gas_estimate, cost_eth) of issue_certificate
    balance_eth,  \* local of issue_certificate
    transaction,  \* local of issue_certificate
    tx_hash,      \* local of issue_certificate (0: nothing sent)
    receipt,      \* local of process_wipe_data: what issue_certificate returned
    result,       \* what the call returned
    effects,      \* per call: the outbound requests made so far
    calls,        \* calls started
    creds,        \* pinata_api_key, pinata_secret: configured or not
    files,        \* working directory: certificate_<id>.pdf -> call that rendered it (0: no file)
    pins,         \* artifacts pinned at the gateway
    txs,          \* transactions the node accepted, by order of submission
    revoked,      \* certificates whose validity flag the contract owner cleared
    view,         \* the last verification: the query, and what each layer returned
    details,      \* the last details lookup: the query, and what each layer returned
    hashed,       \* calculate_data_hash: its arguments and the digests it returned
    validated     \* validate_wipe_data called on its own: its argument and its verdict

locals == <<pc, callNo, wipe_data, ipfs_hash, quote, balance_eth, transaction, tx_hash, receipt,
           result, effects>>
world == <<calls, creds, files, pins, txs, revoked>>
issuance == <<locals, calls, creds, files, pins>>
\* What the read path left behind.
reads == <<view, details>>
vars == <<pc, callNo, wipe_data, ipfs_hash, quote, balance_eth, transaction, tx_hash, receipt,
          result, effects, calls, creds, files, pins, txs, revoked, view, details,
          hashed, validated>>

NoReceipt == [transactionHash |-> 0, blockNumber |-> 0, status |-> -1]

NoEffects == [renders |-> 0, uploads |-> 0, estimates |-> 0, balances |-> 0, nonces |-> 0, sends |-> 0]

NoResult ==
    [outcome |-> "none", keys |-> {}, success |-> FALSE, certificate_id |-> "",
     error |-> "", transaction_hash |-> "", block_number |-> 0, ipfs_hash |-> ""]

\* verifyCertificate(certificateId).call(): the tuple of the contract's view
\* function (ABI, lines 80-95), reduced to exists, isValid and ipfsHash.
NoEntry == [exists |-> FALSE, isValid |-> FALSE, ipfsHash |-> ""]

\* What BlockchainIntegration.verify_certificate returns: the dict, or None.
NoneView == [none |-> TRUE, exists |-> FALSE, is_valid |-> FALSE, ipfs_hash |-> ""]

NoVerification == [outcome |-> "none", keys |-> {}, valid |-> FALSE, error |-> "",
                   verification_result |-> NoneView]

\* query: whether the contract call answered; answer: the tuple it answered with.
NoView == [certificate_id |-> "", query |-> "none", answer |-> NoEntry, ledger |-> NoneView,
           result |-> NoVerification]

\* getCertificateDetails(certificateId).call(): the struct of the contract's
\* view function (ABI, lines 97-121), reduced to certificateId, ipfsHash and
\* isValid.  found tells whether the contract holds the entry; the struct has
\* no such field.
NoStruct == [found |-> FALSE, certificateId |-> "", ipfsHash |-> "", isValid |-> FALSE]

\* What BlockchainIntegration.get_certificate_details returns: the dict, or None.
\* ipfs_url is the key get_certificate_details of the system layer may add.
NoUrl == [gateway |-> "", cid |-> ""]
NoneDetails == [none |-> TRUE, certificate_id |-> "", ipfs_hash |-> "", ipfs_url |-> NoUrl,
                is_valid |-> FALSE]

NoLookupResult == [outcome |-> "none", keys |-> {}, success |-> FALSE, error |-> "",
                   certificate_details |-> NoneDetails]

NoLookup == [certificate_id |-> "", query |-> "none", answer |-> NoStruct,
             result |-> NoLookupResult]

\* No call of calculate_data_hash yet.
NoDigest == [computed |-> FALSE, format |-> "", of |-> <<>>]
NoData == [kind |-> "none", items |-> <<>>]
NoHashing == [first |-> NoData, second |-> NoData,
              digest_first |-> NoDigest, digest_second |-> NoDigest, digest_again |-> NoDigest]

\* No call of validate_wipe_data on its own yet.
NoValidation == [wipe_data |-> NoRecord, verdict |-> "none"]

\* The system after construction, the pure functions aside.
InitPipeline ==
    /\ pc = [p \in Procs |-> "idle"]
    /\ callNo = [p \in Procs |-> 0]
    /\ wipe_data = [p \in Procs |-> NoRecord]
    /\ ipfs_hash = [p \in Procs |-> None]
    /\ quote = [p \in Procs |-> NoQuote]
    /\ balance_eth = [p \in Procs |-> FromWei(0, "ether")]
    /\ transaction = [p \in Procs |-> NoTransaction]
    /\ tx_hash = [p \in Procs |-> 0]
    /\ receipt = [p \in Procs |-> NoReceipt]
    /\ result = [p \in Procs |-> NoResult]
    /\ effects = [p \in Procs |-> NoEffects]
    /\ calls = 0
    /\ creds \in [pinata_api_key : BOOLEAN, pinata_secret : BOOLEAN]
    /\ files = [c \in CertIds |-> 0]
    /\ pins = {}
    /\ txs = <<>>
    /\ revoked = {}
    /\ view = NoView
    /\ details = NoLookup

Init ==
    /\ InitPipeline
    /\ hashed = NoHashing
    /\ validated = NoValidation

(* ------------------------------------------------------------------ *)
(* The ledger node                                                     *)
(* ------------------------------------------------------------------ *)

Mined_always(i) == TRUE

Mined(i) == txs[i].status \in {"ok", "reverted"}

\* web3.eth.get_transaction_count(address): the transactions of the account
\* in the latest block (the default block identifier), pending ones excluded.
get_transaction_count == Cardinality({i \in 1..Len(txs) : Mined(i)})

\* The receipt of a mined transaction.
Receipt(h) ==
    [transactionHash |-> h, blockNumber |-> txs[h].blockNumber,
     status |-> IF txs[h].status = "ok" THEN 1 ELSE 0]

\* The contract's certificate for an identifier: the one the latest successful
\* issueCertificate call stored.
Issued(c) == {i \in 1..Len(txs) : txs[i].status = "ok" /\ txs[i].certificate_id = c}
Latest(c) == CHOOSE i \in Issued(c) : \A j \in Issued(c) : txs[j].blockNumber <= txs[i].blockNumber

\* Transactions in the node's pool that carry nonce n.
PendingWithNonce(n) == {i \in 1..Len(txs) : txs[i].status = "pending" /\ txs[i].nonce = n}

(* ------------------------------------------------------------------ *)
(* process_wipe_data                                                   *)
(* ------------------------------------------------------------------ *)

ErrInvalid == "Invalid wipe data provided"
ErrNoGet == "object has no attribute 'get'"
ErrRender == "cannot write the certificate file"
ErrEstimate == "Cannot estimate gas cost"
ErrBalance == "Insufficient balance"
ErrNode == "the node answered with an error"
ErrTimeout == "Transaction is not in the chain after 300 seconds"
ErrFailed == "Transaction failed"
ErrRemove == "cannot remove the certificate file"

FailureKeys == {"success", "error", "certificate_id"}
SuccessKeys ==
    {"success", "certificate_id", "transaction_hash", "block_number", "gas_used",
     "ipfs_hash", "ipfs_url", "blockchain_explorer_url", "verification_url",
     "issued_at", "issuer_address"}

\* The except clause of process_wipe_data: the failure result, or the
\* AttributeError of wipe_data.get when wipe_data is no dict.
FailureResult_swallowed(wd, e) ==
    [NoResult EXCEPT !.outcome = "returned", !.keys = SuccessKeys, !.success = TRUE,
                     !.certificate_id = GetCertificateId(wd, "unknown")]

FailureResult(wd, e) ==
    IF wd.kind = "dict"
    THEN [NoResult EXCEPT !.outcome = "returned", !.keys = FailureKeys,
                          !.error = e,
                          !.certificate_id = GetCertificateId(wd, "unknown")]
    ELSE [NoResult EXCEPT !.outcome = "raised", !.error = ErrNoGet]

\* The result assembled after cleanup (lines 84-96).
SuccessResult(wd, rcpt, ipfs) ==
    [NoResult EXCEPT !.outcome = "returned", !.keys = SuccessKeys,
                     !.success = TRUE,
                     !.certificate_id = GetCertificateId(wd, None),
                     !.transaction_hash = Hex(rcpt.transactionHash),
                     !.block_number = rcpt.blockNumber,
                     !.ipfs_hash = ipfs]

\* The locals of issue_certificate are gone once it has returned or raised.
NoAmount == FromWei(0, "ether")

Forget(v, p, blank) == [v EXCEPT ![p] = blank]

\* process_wipe_data returns r (or lets the exception r stands for escape).
Leave(p, r) ==
    /\ result' = [result EXCEPT ![p] = r]
    /\ pc' = [pc EXCEPT ![p] = "done"]
    /\ tx_hash' = Forget(tx_hash, p, 0)
    /\ quote' = Forget(quote, p, NoQuote)
    /\ balance_eth' = Forget(balance_eth, p, NoAmount)
    /\ transaction' = Forget(transaction, p, NoTransaction)

\* An exception reaches the except clause of process_wipe_data (lines 105-111).
Fail_retry(p, e) ==
    /\ pc' = pc
    /\ UNCHANGED <<result, tx_hash, quote, balance_eth, transaction>>

Fail(p, e) == Leave(p, FailureResult(wipe_data[p], e))

\* Lines 84-103: the result is assembled and returned.
Return(p) == Leave(p, SuccessResult(wipe_data[p], receipt[p], ipfs_hash[p]))

Goto(p, next) ==
    /\ pc' = [pc EXCEPT ![p] = next]
    /\ UNCHANGED result

Count(p, what) == [effects EXCEPT ![p][what] = @ + 1]

\* The pool hands the first request to its first thread.
ServesBefore(q, p) == q = "w1" /\ p = "w2"

Enter_unique(p, most) ==
    /\ pc[p] \in {"idle", "done"}
    /\ calls < most
    /\ \A q \in Procs : ServesBefore(q, p) => callNo[q] # 0
    /\ \E wd \in Records :
        /\ wipe_data' = [wipe_data EXCEPT ![p] = wd]
        /\ calls' = calls + 1
        /\ callNo' = [callNo EXCEPT ![p] = calls + 1]
        /\ effects' = [effects EXCEPT ![p] = NoEffects]
        /\ ipfs_hash' = [ipfs_hash EXCEPT ![p] = None]
        /\ receipt' = [receipt EXCEPT ![p] = NoReceipt]
        /\ IF validate_wipe_data(wd) = "true" /\ Issued(wd.certificate_id.v) = {}
           THEN /\ pc' = [pc EXCEPT ![p] = "render"]
                /\ result' = [result EXCEPT ![p] = NoResult]
           ELSE /\ pc' = [pc EXCEPT ![p] = "done"]
                /\ result' = [result EXCEPT ![p] =
                      FailureResult(wd, IF validate_wipe_data(wd) = "true"
                                        THEN "Certificate already issued"
                                        ELSE IF validate_wipe_data(wd) = "false"
                                        THEN ErrInvalid ELSE ErrNoGet)]
    /\ UNCHANGED <<tx_hash, quote, balance_eth, transaction>>
    /\ UNCHANGED <<creds, files, pins, txs, revoked>>

\* Lines 36-44: a request thread enters process_wipe_data and validates.
\* At most `most` calls are started.
Enter(p, most) ==
    /\ pc[p] \in {"idle", "done"}
    /\ calls < most
    /\ \A q \in Procs : ServesBefore(q, p) => callNo[q] # 0
    /\ \E wd \in Records :
        /\ wipe_data' = [wipe_data EXCEPT ![p] = wd]
        /\ calls' = calls + 1
        /\ callNo' = [callNo EXCEPT ![p] = calls + 1]
        /\ effects' = [effects EXCEPT ![p] = NoEffects]
        /\ ipfs_hash' = [ipfs_hash EXCEPT ![p] = None]
        /\ receipt' = [receipt EXCEPT ![p] = NoReceipt]
        /\ IF validate_wipe_data(wd) = "true"
           THEN /\ pc' = [pc EXCEPT ![p] = "render"]
                /\ result' = [result EXCEPT ![p] = NoResult]
           ELSE /\ pc' = [pc EXCEPT ![p] = "done"]
                /\ result' = [result EXCEPT ![p] =
                      FailureResult(wd, IF validate_wipe_data(wd) = "false"
                                        THEN ErrInvalid ELSE ErrNoGet)]
    /\ UNCHANGED <<tx_hash, quote, balance_eth, transaction>>
    /\ UNCHANGED <<creds, files, pins, txs, revoked>>

Validate(p) == Enter(p, MaxCalls)

\* Line 48: generate_certificate writes certificate_<id>.pdf, or raises.
Render(p) ==
    /\ pc[p] = "render"
    /\ \/ /\ files' = [files EXCEPT ![PdfFilename(wipe_data[p])] = callNo[p]]
          /\ effects' = Count(p, "renders")
          /\ Goto(p, "upload")
          /\ UNCHANGED <<tx_hash, quote, balance_eth, transaction>>
       \/ /\ Fail(p, ErrRender)
          /\ UNCHANGED <<files, effects>>
    /\ UNCHANGED <<callNo, wipe_data, ipfs_hash, receipt, calls, creds, pins, txs, revoked>>

\* `not all([pinata_api_key, pinata_secret])`
CredentialsMissing_never == FALSE

CredentialsMissing == ~(creds.pinata_api_key /\ creds.pinata_secret)

\* `if not ipfs_hash: ipfs_hash = ""` (lines 70-72)
OrEmpty_keep(h) == h

OrEmpty(h) == IF h = None \/ h = "" THEN "" ELSE h

\* Lines 68-72: upload_to_ipfs, its answer turned into ipfs_hash.
\* gateway: "200", "500", or "error" (the request raised).
Upload(p) ==
    /\ pc[p] = "upload"
    /\ LET f == files[PdfFilename(wipe_data[p])] IN
       \E gateway \in {"200", "500", "error"} :
        IF CredentialsMissing \/ f = 0
        THEN \* no credentials, or open(file_path) raised: no request is made
             /\ gateway = "error"
             /\ ipfs_hash' = [ipfs_hash EXCEPT ![p] = OrEmpty(None)]
             /\ UNCHANGED <<pins, effects>>
        ELSE /\ effects' = Count(p, "uploads")
             /\ IF gateway = "200"
                THEN /\ pins' = pins \cup {CidTable[f]}
                     /\ ipfs_hash' = [ipfs_hash EXCEPT ![p] = OrEmpty(CidTable[f])]
                ELSE /\ ipfs_hash' = [ipfs_hash EXCEPT ![p] = OrEmpty(None)]
                     /\ UNCHANGED pins
    /\ Goto(p, "estimate")
    /\ UNCHANGED <<callNo, wipe_data, quote, balance_eth, transaction, tx_hash, receipt,
                   calls, creds, files, txs, revoked>>

\* Lines 213-214: `if not gas_estimate: raise`
CheckEstimate(p, q) ==
    IF EstimateMissing(q)
    THEN Fail(p, ErrEstimate)
    ELSE /\ quote' = [quote EXCEPT ![p] = q]
         /\ Goto(p, "afford")
         /\ UNCHANGED <<tx_hash, balance_eth, transaction>>

\* Lines 211-214 of issue_certificate: estimate_gas_cost and its check.
Estimate(p) ==
    /\ pc[p] = "estimate"
    /\ effects' = Count(p, "estimates")
    /\ \/ CheckEstimate(p, estimate_gas_cost(TRUE, NoneGas, NoneGas))
       \/ \E g \in GasEstimates, price \in GasPrices :
            CheckEstimate(p, estimate_gas_cost(FALSE, g, price))
    /\ UNCHANGED <<callNo, wipe_data, ipfs_hash, receipt, world>>

\* Lines 216-221: the balance read and the affordability check.  cost_eth is
\* not read after the check.
Afford(p) ==
    /\ pc[p] = "afford"
    /\ effects' = Count(p, "balances")
    /\ \E balance \in Balances :
        LET b == FromWei(balance, "ether") IN
        IF InsufficientBalance(b, quote[p].cost_eth)
        THEN Fail(p, ErrBalance)
        ELSE /\ balance_eth' = [balance_eth EXCEPT ![p] = b]
             /\ quote' = [quote EXCEPT ![p].cost_eth = NoAmount]
             /\ Goto(p, "build")
             /\ UNCHANGED <<tx_hash, transaction>>
    /\ UNCHANGED <<callNo, wipe_data, ipfs_hash, receipt, world>>

\* Lines 223-230: the nonce read and build_transaction (which reads the gas
\* price again).  gas_estimate and balance_eth are not read after it.
Build(p) ==
    /\ pc[p] = "build"
    /\ effects' = Count(p, "nonces")
    /\ \E price \in GasPrices :
        /\ transaction' = [transaction EXCEPT ![p] =
              build_transaction(quote[p].gas_estimate, price, get_transaction_count)]
        /\ quote' = Forget(quote, p, NoQuote)
        /\ balance_eth' = Forget(balance_eth, p, NoAmount)
        /\ Goto(p, "send")
        /\ UNCHANGED tx_hash
    /\ UNCHANGED <<callNo, wipe_data, ipfs_hash, receipt, world>>

\* The call payload of issueCertificate (lines 198-209), reduced to the key
\* and the storage reference, as the node holds it.
Payload(p) ==
    [nonce |-> transaction[p].nonce,
     certificate_id |-> GetCertificateId(wipe_data[p], ""),
     ipfs_hash |-> OrEmpty(ipfs_hash[p]),
     status |-> "pending",
     blockNumber |-> 0]

\* Lines 233-236: sign_transaction and send_raw_transaction.  The node
\* refuses a nonce it has already mined; a transaction whose nonce a pending
\* transaction carries is refused or replaces that one; any request may fail.
Send(p) ==
    /\ pc[p] = "send"
    /\ effects' = Count(p, "sends")
    /\ \/ /\ Fail(p, ErrNode)
          /\ UNCHANGED txs
       \/ /\ transaction[p].nonce >= get_transaction_count
          /\ txs' = Append([i \in 1..Len(txs) |->
                              IF i \in PendingWithNonce(transaction[p].nonce)
                              THEN [txs[i] EXCEPT !.status = "dropped"] ELSE txs[i]],
                           Payload(p))
          /\ tx_hash' = [tx_hash EXCEPT ![p] = Len(txs) + 1]
          /\ transaction' = Forget(transaction, p, NoTransaction)
          /\ Goto(p, "wait")
          /\ UNCHANGED <<quote, balance_eth>>
    /\ UNCHANGED <<callNo, wipe_data, ipfs_hash, receipt, calls, creds, files, pins, revoked>>

\* `receipt.status == 1`
ReceiptOk_always(rcpt) == TRUE

ReceiptOk_never(rcpt) == FALSE

ReceiptOk(rcpt) == rcpt.status = 1

\* Lines 239-245: wait_for_transaction_receipt returns the receipt of a mined
\* transaction, raises TimeExhausted when the timeout elapses first, or fails
\* on a node error.
Confirm(p) ==
    /\ pc[p] = "wait"
    /\ \/ /\ Mined(tx_hash[p])
          /\ IF ReceiptOk(Receipt(tx_hash[p]))
             THEN /\ receipt' = [receipt EXCEPT ![p] = Receipt(tx_hash[p])]
                  /\ tx_hash' = Forget(tx_hash, p, 0)
                  /\ Goto(p, "exists")
                  /\ UNCHANGED <<quote, balance_eth, transaction>>
             ELSE /\ Fail(p, ErrFailed)
                  /\ UNCHANGED receipt
       \/ /\ ~Mined(tx_hash[p])
          /\ Fail(p, ErrTimeout)
          /\ UNCHANGED receipt
       \/ /\ Fail(p, ErrNode)
          /\ UNCHANGED receipt
    /\ UNCHANGED <<callNo, wipe_data, ipfs_hash, effects, world>>

\* Line 79: os.path.exists(pdf_filename).
Exists(p) ==
    /\ pc[p] = "exists"
    /\ IF files[PdfFilename(wipe_data[p])] # 0
       THEN /\ Goto(p, "remove")
            /\ UNCHANGED <<tx_hash, quote, balance_eth, transaction>>
       ELSE Return(p)
    /\ UNCHANGED <<callNo, wipe_data, ipfs_hash, receipt, effects, world>>

\* Line 80: os.remove(pdf_filename) deletes the file, or raises (the file is
\* gone, or the file system refuses).
Remove(p) ==
    /\ pc[p] = "remove"
    /\ \/ /\ files[PdfFilename(wipe_data[p])] # 0
          /\ files' = [files EXCEPT ![PdfFilename(wipe_data[p])] = 0]
          /\ Return(p)
       \/ /\ Fail(p, ErrRemove)
          /\ UNCHANGED files
    /\ UNCHANGED <<callNo, wipe_data, ipfs_hash, receipt, effects, calls, creds, pins, txs, revoked>>

(* ------------------------------------------------------------------ *)
(* The ledger                                                          *)
(* ------------------------------------------------------------------ *)

\* The node mines the pending transaction whose nonce is next.  The contract
\* call succeeds and stores the certificate, or reverts.
Mine(i) ==
    /\ txs[i].status = "pending"
    /\ txs[i].nonce = get_transaction_count
    /\ \E ok \in BOOLEAN :
        /\ txs' = [txs EXCEPT ![i].status = IF ok THEN "ok" ELSE "reverted",
                              ![i].blockNumber = get_transaction_count + 1]
        /\ revoked' = IF ok THEN revoked \ {txs[i].certificate_id} ELSE revoked
    /\ UNCHANGED <<issuance, reads, hashed, validated>>

\* The contract owner clears the validity flag of a certificate.
Revoke(c) ==
    /\ Issued(c) # {}
    /\ c \notin revoked
    /\ revoked' = revoked \cup {c}
    /\ UNCHANGED <<issuance, txs, reads, hashed, validated>>

(* ------------------------------------------------------------------ *)
(* The read path                                                       *)
(* ------------------------------------------------------------------ *)

ErrNotFound == "Certificate not found on blockchain"

\* Identifiers a client may ask about; "c9" is carried by no record.
VerifyIds == CertIds \cup {"c9"}

\* The contract's verifyCertificate: the stored certificate, or the default
\* (all-zero) tuple for an identifier it does not hold.
verifyCertificate(c) ==
    IF Issued(c) = {} THEN NoEntry
    ELSE [exists |-> TRUE, isValid |-> c \notin revoked, ipfsHash |-> txs[Latest(c)].ipfs_hash]

\* BlockchainIntegration.verify_certificate (lines 251-268): the tuple as a
\* dict, or None when the call raised.
blockchain_verify_certificate_raise(raised, t) ==
    IF raised THEN [NoneView EXCEPT !.none = FALSE]
    ELSE [none |-> FALSE, exists |-> t.exists, is_valid |-> t.isValid, ipfs_hash |-> t.ipfsHash]

blockchain_verify_certificate_merged(raised, t) ==
    IF raised THEN NoneView
    ELSE [none |-> FALSE, exists |-> t.exists, is_valid |-> t.exists, ipfs_hash |-> t.ipfsHash]

blockchain_verify_certificate(raised, t) ==
    IF raised THEN NoneView
    ELSE [none |-> FALSE, exists |-> t.exists, is_valid |-> t.isValid, ipfs_hash |-> t.ipfsHash]

VerifiedKeys == {"valid", "certificate_id", "verification_result", "verified_at"}
NotVerifiedKeys == {"valid", "certificate_id", "error", "verified_at"}

\* DataWipingCertificationSystem.verify_certificate (lines 146-163), given
\* what the blockchain layer returned.
verify_certificate_anyanswer(certificate_id, verification_result) ==
    IF ~verification_result.none
    THEN [outcome |-> "returned", keys |-> VerifiedKeys, valid |-> TRUE, error |-> "",
          verification_result |-> verification_result]
    ELSE [outcome |-> "returned", keys |-> NotVerifiedKeys, valid |-> FALSE,
          error |-> ErrNotFound, verification_result |-> NoneView]

verify_certificate_validonly(certificate_id, verification_result) ==
    IF ~verification_result.none /\ verification_result.exists /\ verification_result.is_valid
    THEN [outcome |-> "returned", keys |-> VerifiedKeys, valid |-> TRUE, error |-> "",
          verification_result |-> verification_result]
    ELSE [outcome |-> "returned", keys |-> NotVerifiedKeys, valid |-> FALSE,
          error |-> ErrNotFound, verification_result |-> NoneView]

verify_certificate(certificate_id, verification_result) ==
    IF ~verification_result.none /\ verification_result.exists
    THEN [outcome |-> "returned", keys |-> VerifiedKeys, valid |-> TRUE, error |-> "",
          verification_result |-> verification_result]
    ELSE [outcome |-> "returned", keys |-> NotVerifiedKeys, valid |-> FALSE,
          error |-> ErrNotFound, verification_result |-> NoneView]

\* GET /api/verify/<certificate_id>: one query of the ledger, which answers
\* or fails (the node cannot be reached, the call reverts).
Verify(c) ==
    /\ \E raised \in BOOLEAN :
        LET vr == blockchain_verify_certificate(raised, verifyCertificate(c)) IN
        view' = [certificate_id |-> c,
                 query |-> IF raised THEN "failed" ELSE "ok",
                 answer |-> IF raised THEN NoEntry ELSE verifyCertificate(c),
                 ledger |-> vr,
                 result |-> verify_certificate(c, vr)]
    /\ UNCHANGED <<issuance, txs, revoked, details, hashed, validated>>

ErrDetailsNotFound == "Certificate not found"

\* f'https://gateway.pinata.cloud/ipfs/{details["ipfs_hash"]}'
GatewayUrl(h) == [gateway |-> "https://gateway.pinata.cloud/ipfs/", cid |-> h]

\* The contract's getCertificateDetails: the stored certificate, or the
\* default (all-empty) struct for an identifier it does not hold.
getCertificateDetails(c) ==
    IF Issued(c) = {} THEN NoStruct
    ELSE [found |-> TRUE, certificateId |-> c, ipfsHash |-> txs[Latest(c)].ipfs_hash,
          isValid |-> c \notin revoked]

\* BlockchainIntegration.get_certificate_details (lines 270-292): the struct
\* as a dict, or None when the call raised.
blockchain_get_certificate_details(raised, t) ==
    IF raised THEN NoneDetails
    ELSE [none |-> FALSE, certificate_id |-> t.certificateId, ipfs_hash |-> t.ipfsHash,
          ipfs_url |-> NoUrl, is_valid |-> t.isValid]

DetailsKeys == {"success", "certificate_details", "retrieved_at"}
NoDetailsKeys == {"success", "error", "certificate_id"}

\* DataWipingCertificationSystem.get_certificate_details (lines 174-202),
\* given what the blockchain layer returned.  `if details:` is true for every
\* dict that is not empty, and the dict of the blockchain layer always holds
\* its thirteen keys.
get_certificate_details(certificate_id, d) ==
    IF ~d.none
    THEN [outcome |-> "returned", keys |-> DetailsKeys, success |-> TRUE, error |-> "",
          certificate_details |->
              IF d.ipfs_hash # "" THEN [d EXCEPT !.ipfs_url = GatewayUrl(d.ipfs_hash)]
              ELSE d]
    ELSE [outcome |-> "returned", keys |-> NoDetailsKeys, success |-> FALSE,
          error |-> ErrDetailsNotFound, certificate_details |-> NoneDetails]

\* GET /api/details/<certificate_id>, and the user panel of app.py: one query
\* of the ledger, which answers or fails.
GetDetails(c) ==
    /\ \E raised \in BOOLEAN :
        LET d == blockchain_get_certificate_details(raised, getCertificateDetails(c)) IN
        details' = [certificate_id |-> c,
                    query |-> IF raised THEN "failed" ELSE "ok",
                    answer |-> IF raised THEN NoStruct ELSE getCertificateDetails(c),
                    result |-> get_certificate_details(c, d)]
    /\ UNCHANGED <<issuance, txs, revoked, view, hashed, validated>>

\* Every step of process_wipe_data after validation.
Steps(p) ==
    \/ Render(p)
    \/ Upload(p)
    \/ Estimate(p)
    \/ Afford(p)
    \/ Build(p)
    \/ Send(p)
    \/ Confirm(p)
    \/ Exists(p)
    \/ Remove(p)

\* One step of a request thread inside process_wipe_data.
Issue(p) ==
    /\ \/ Validate(p)
       \/ Steps(p)
    /\ UNCHANGED <<reads, hashed, validated>>

Node == \E i \in 1..Len(txs) : Mine(i)

Next ==
    \/ \E p \in Procs : Issue(p)
    \/ Node

Spec == Init /\ [][Next]_vars

\* The read path beside one issuing thread: verification requests may arrive
\* at any time, the contract owner may revoke.
MaxIssued == 1

IssueOne ==
    /\ \/ Enter("w1", MaxIssued)
       \/ Steps("w1")
    /\ UNCHANGED <<reads, hashed, validated>>

NextVerify ==
    \/ IssueOne
    \/ Node
    \/ \E c \in CertIds : Revoke(c)
    \/ \E c \in VerifyIds : Verify(c)
    \/ \E c \in VerifyIds : GetDetails(c)

SpecVerify == Init /\ [][NextVerify]_vars

\* One step of a call that has passed validation.
Run(p) ==
    /\ Steps(p)
    /\ UNCHANGED <<reads, hashed, validated>>

\* A request thread that is inside process_wipe_data keeps running: every
\* external call returns or raises, and the confirmation wait ends with the
\* receipt or with its timeout.  Nothing obliges the node to mine.
SpecFair == Spec /\ \A p \in Procs : WF_vars(Run(p))

(* ------------------------------------------------------------------ *)
(* calculate_data_hash                                                 *)
(* ------------------------------------------------------------------ *)

\* Keys in the order in which strings compare, and the values they may hold.
KeyOrder == <<"a", "b", "c">>
Values == {1, 2}

Rank(k) == CHOOSE i \in 1..Len(KeyOrder) : KeyOrder[i] = k

Items == [k : {KeyOrder[i] : i \in 1..Len(KeyOrder)}, v : Values]

\* The items of a dict in insertion order (no key twice), or of a list of
\* key/value pairs in list order.
ItemSeqs ==
    UNION {{q \in [1..n -> Items] : \A i, j \in 1..n : q[i].k = q[j].k => i = j}
           : n \in 0..Len(KeyOrder)}

Datas == [kind : {"dict", "list"}, items : ItemSeqs]

\* sorted(items, key=key): the item at position i is the one with i-1 smaller keys.
SortedByKey(q) ==
    [i \in 1..Len(q) |->
        q[CHOOSE j \in 1..Len(q) :
            Cardinality({m \in 1..Len(q) : Rank(q[m].k) < Rank(q[j].k)}) = i - 1]]

\* json.dumps(data, sort_keys=True): the text lists the items by ascending key.
json_dumps_unsorted(data) == [format |-> "json", text |-> data.items]

json_dumps(data) == [format |-> "json", text |-> SortedByKey(data.items)]

\* str(data): the text lists the items in the order the value holds them.
str(data) == [format |-> "str", text |-> data.items]

\* hashlib.sha256(data_string.encode()).hexdigest(): the digest is named by
\* the text it was computed from (distinct texts, distinct digests).
sha256_hexdigest(data_string) ==
    [computed |-> TRUE, format |-> data_string.format, of |-> data_string.text]

\* BlockchainIntegration.calculate_data_hash (lines 167-173)
calculate_data_hash(data) ==
    IF data.kind = "dict" THEN sha256_hexdigest(json_dumps(data))
    ELSE sha256_hexdigest(str(data))

InitHash ==
    /\ InitPipeline
    /\ \E a, b \in Datas : hashed = [NoHashing EXCEPT !.first = a, !.second = b]
    /\ validated = NoValidation

HashFirst ==
    /\ ~hashed.digest_first.computed
    /\ hashed' = [hashed EXCEPT !.digest_first = calculate_data_hash(hashed.first)]
    /\ UNCHANGED <<issuance, txs, revoked, reads, validated>>

HashSecond ==
    /\ ~hashed.digest_second.computed
    /\ hashed' = [hashed EXCEPT !.digest_second = calculate_data_hash(hashed.second)]
    /\ UNCHANGED <<issuance, txs, revoked, reads, validated>>

\* A repeated call with the first value.
HashAgain ==
    /\ hashed.digest_first.computed
    /\ ~hashed.digest_again.computed
    /\ hashed' = [hashed EXCEPT !.digest_again = calculate_data_hash(hashed.first)]
    /\ UNCHANGED <<issuance, txs, revoked, reads, validated>>

NextHash ==
    \/ HashFirst
    \/ HashSecond
    \/ HashAgain

SpecHash == InitHash /\ [][NextHash]_vars

(* ------------------------------------------------------------------ *)
(* validate_wipe_data                                                  *)
(* ------------------------------------------------------------------ *)

\* Values a JSON client may send for each key (PyAbsent: the key is missing).
SuccessValues == {PyAbsent, PyBool(TRUE), PyBool(FALSE), PyStr("false"), PyStr("true"), PyStr("")}
TextValues(s) == {PyAbsent, PyStr(""), PyStr(s)}
DetailsValues ==
    {NoDetails, StrDetails, DictDetails(PyAbsent), DictDetails(PyStr("")), DictDetails(PyStr("S1"))}

ValidationRecords ==
    [kind : {"dict"},
     certificate_id : {PyAbsent, PyStr("c1")},
     device_details : DetailsValues,
     timestamp_utc : TextValues("20250101T000000Z"),
     success : SuccessValues,
     status : TextValues("Success")]
    \cup {ListInput}

InitValidate ==
    /\ InitPipeline
    /\ hashed = NoHashing
    /\ \E wd \in ValidationRecords : validated = [NoValidation EXCEPT !.wipe_data = wd]

\* cert_system.validate_wipe_data(wipe_data)
ValidateRecord ==
    /\ validated.verdict = "none"
    /\ validated' = [validated EXCEPT !.verdict = validate_wipe_data(validated.wipe_data)]
    /\ UNCHANGED <<issuance, txs, revoked, reads, hashed>>

NextValidate == ValidateRecord

SpecValidate == InitValidate /\ [][NextValidate]_vars

(* ------------------------------------------------------------------ *)
(* Properties                                                          *)
(* ------------------------------------------------------------------ *)

\* A record that lacks device_details.serial, reports success = false, or
\* lacks timestamp_utc.
Rejected(wd) ==
    /\ wd.kind = "dict"
    /\ wd.device_details.t \in {"absent", "dict"}
    /\ \/ wd.device_details.serial.t = "absent"
       \/ wd.success = PyBool(FALSE)
       \/ wd.timestamp_utc.t = "absent"

\* C1: a call whose record lacks device_details.serial, has success = false
\* or lacks timestamp_utc returns at once with success = false and the
\* validation error, having rendered nothing and made no upload request, gas
\* estimation, balance read, nonce read or submission.
C1_ValidationRejects ==
    \A p \in Procs :
        (pc[p] # "idle" /\ Rejected(wipe_data[p])) =>
            /\ pc[p] = "done"
            /\ result[p].outcome = "returned"
            /\ ~result[p].success
            /\ result[p].error = ErrInvalid
            /\ effects[p] = NoEffects
            /\ receipt[p] = NoReceipt

C1_Witness ==
    /\ pc["w1"] = "done" /\ wipe_data["w1"].device_details.serial.t = "absent"
    /\ wipe_data["w1"].device_details.t = "dict" /\ result["w1"].error = ErrInvalid
    /\ pc["w2"] = "done" /\ wipe_data["w2"].success = PyBool(FALSE)
    /\ result["w2"].error = ErrInvalid

\* C2 (as claimed): two calls that are both waiting for the receipt of the
\* transaction they submitted never submitted under the same nonce.
C2_NonceSerialized ==
    \A p, q \in Procs :
        (p # q /\ pc[p] = "wait" /\ pc[q] = "wait") =>
            txs[tx_hash[p]].nonce # txs[tx_hash[q]].nonce

\* C3: the step that reads the balance goes on to the nonce read only with a
\* balance that is not less than the estimated cost; otherwise the call ends
\* there with the insufficient-balance error, no nonce read and nothing sent.
C3_AffordabilityGate ==
    [][\A p \in Procs :
        pc[p] = "afford" =>
            /\ pc'[p] \in {"afford", "build", "done"}
            /\ pc'[p] = "build" => ~LessThan(balance_eth'[p], quote[p].cost_eth)
            /\ pc'[p] = "done" =>
                /\ result'[p].outcome = "returned"
                /\ ~result'[p].success
                /\ result'[p].error = ErrBalance
                /\ effects'[p].nonces = 0
                /\ effects'[p].sends = 0
                /\ txs' = txs]_vars

C3_Witness ==
    \E p \in Procs :
        /\ pc[p] = "done" /\ result[p].error = ErrBalance
        /\ effects[p].balances = 1 /\ effects[p].nonces = 0 /\ effects[p].sends = 0

\* C4: no call gets past gas estimation without an estimate, and a call that
\* ended with the cost-estimation error returned success = false having read
\* no balance and no nonce and submitted nothing.
C4_EstimationFailureAborts ==
    \A p \in Procs :
        /\ pc[p] \in {"afford", "build"} => quote[p].gas_estimate \in GasEstimates
        /\ effects[p].balances > 0 => effects[p].estimates = 1 /\ result[p].error # ErrEstimate
        /\ (pc[p] = "done" /\ result[p].error = ErrEstimate) =>
            /\ result[p].outcome = "returned"
            /\ ~result[p].success
            /\ effects[p].estimates = 1
            /\ effects[p].balances = 0
            /\ effects[p].nonces = 0
            /\ effects[p].sends = 0
            /\ receipt[p] = NoReceipt

C4_Witness ==
    \E p \in Procs :
        /\ pc[p] = "done" /\ result[p].error = ErrEstimate /\ effects[p].estimates = 1

\* C5 (as claimed): a call whose upload returned absent and whose ledger step
\* returned a receipt returns success = true with an empty storage reference,
\* its transaction carrying the empty string.
C5_StorageFailureNotFatal ==
    \A p \in Procs :
        (pc[p] = "done" /\ ipfs_hash[p] = "" /\ receipt[p].status = 1) =>
            /\ result[p].success
            /\ result[p].ipfs_hash = ""
            /\ txs[receipt[p].transactionHash].ipfs_hash = ""

\* C6 (as claimed): once a call that rendered its artifact and reached the
\* ledger step has returned, the file it rendered no longer exists.
C6_ArtifactDeleted ==
    \A p \in Procs :
        (pc[p] = "done" /\ effects[p].renders = 1 /\ effects[p].estimates = 1) =>
            files[PdfFilename(wipe_data[p])] # callNo[p]

\* C7 (as claimed): a call whose transaction was confirmed with success status
\* returns success = true with the receipt's transaction identifier and
\* block height, whether or not deleting the artifact failed.
C7_CleanupFailureNotPropagated ==
    \A p \in Procs :
        (pc[p] = "done" /\ receipt[p].status = 1) =>
            /\ result[p].success
            /\ result[p].transaction_hash = Hex(receipt[p].transactionHash)
            /\ result[p].block_number = receipt[p].blockNumber

\* C8 (as claimed): a call whose record passed validation and whose rendering,
\* estimation, balance check, submission and confirmation all succeeded
\* returns success = true, a non-empty transaction identifier and the
\* certificate_id of its record.
C8_HappyPath ==
    \A p \in Procs :
        (/\ pc[p] = "done"
         /\ validate_wipe_data(wipe_data[p]) = "true"
         /\ effects[p].renders = 1
         /\ effects[p].sends = 1
         /\ receipt[p].status = 1) =>
            /\ result[p].outcome = "returned"
            /\ result[p].success
            /\ result[p].transaction_hash # ""
            /\ result[p].certificate_id = GetCertificateId(wipe_data[p], None)

\* C9 (as claimed): verifying an identifier the ledger holds no entry for
\* completes normally, reports exists = false and carries no error.
C9_AbsentWithoutError ==
    (view.query = "ok" /\ Issued(view.certificate_id) = {}) =>
        /\ ~view.ledger.none
        /\ ~view.ledger.exists
        /\ view.result.outcome = "returned"
        /\ "error" \notin view.result.keys
        /\ view.result.error = ""

\* C9 (amended): verifying an identifier the ledger holds no entry for
\* completes without raising; the blockchain layer returns a view with
\* exists = false, and the result built from it reports valid = false with
\* the error text "Certificate not found on blockchain" and no
\* verification_result.
C9_AbsentIsNotFound ==
    (view.query = "ok" /\ Issued(view.certificate_id) = {}) =>
        /\ ~view.ledger.none
        /\ ~view.ledger.exists
        /\ view.result.outcome = "returned"
        /\ ~view.result.valid
        /\ view.result.keys = NotVerifiedKeys
        /\ view.result.error = ErrNotFound

C9_Witness ==
    /\ view.certificate_id = "c9"
    /\ view.query = "ok"
    /\ ~view.ledger.exists
    /\ \E c \in CertIds : Issued(c) # {}

\* C10 (as claimed): the result of a verification whose ledger query failed
\* differs from the result returned for an identifier that has no entry.
C10_AbsenceDistinguished ==
    view.query = "failed" =>
        view.result # verify_certificate(view.certificate_id,
                                         blockchain_verify_certificate(FALSE, NoEntry))

\* C11: a verification whose ledger query answered with an entry that exists
\* and whose validity flag is cleared returns a view with exists = true and
\* is_valid = false; both flags of the view are the flags the query answered,
\* and the result handed to the caller carries that view.
C11_ExistsAndValidIndependent ==
    view.query = "ok" =>
        /\ ~view.ledger.none
        /\ view.ledger.exists = view.answer.exists
        /\ view.ledger.is_valid = view.answer.isValid
        /\ (view.answer.exists /\ ~view.answer.isValid) =>
              /\ view.ledger.exists
              /\ ~view.ledger.is_valid
              /\ view.result.outcome = "returned"
              /\ view.result.verification_result = view.ledger

C11_Witness ==
    /\ view.query = "ok"
    /\ view.certificate_id \in revoked
    /\ view.answer.exists
    /\ ~view.answer.isValid
    /\ view.result.verification_result.exists
    /\ ~view.result.verification_result.is_valid

\* C12 (as claimed): a details lookup whose ledger query answered returns
\* success = false with the error "Certificate not found" when the ledger holds
\* no entry for the identifier, and success = true with the details only when
\* an entry exists.
C12_DetailsNotFound ==
    details.query = "ok" =>
        /\ ~details.answer.found =>
              /\ ~details.result.success
              /\ details.result.error = ErrDetailsNotFound
        /\ details.result.success => details.answer.found

\* C13: a call that waits for a transaction which was mined with a non-success
\* status ends, when the wait ends, with success = false and an error
\* description; and no call ever holds a success result without a receipt of
\* status 1.
C13_RevertedIsFailure ==
    [][\A p \in Procs :
        /\ (pc[p] = "wait" /\ txs[tx_hash[p]].status = "reverted" /\ pc'[p] # "wait") =>
              /\ pc'[p] = "done"
              /\ result'[p].outcome = "returned"
              /\ ~result'[p].success
              /\ result'[p].error # ""
              /\ "transaction_hash" \notin result'[p].keys
              /\ receipt'[p] = NoReceipt
        /\ result'[p].success => receipt'[p].status = 1]_vars

C13_Witness ==
    \E p \in Procs :
        /\ pc[p] = "done"
        /\ result[p].error = ErrFailed
        /\ ~result[p].success
        /\ effects[p].sends = 1
        /\ \E i \in 1..Len(txs) :
              txs[i].status = "reverted" /\ txs[i].certificate_id = result[p].certificate_id

\* C14: a call whose wait ends while its transaction is not mined returns
\* success = false; the step that ends the wait leaves the submitted
\* transaction in the node's pool as it was and makes no further request.
\* (The transaction may be mined afterwards: C14_Witness.)
C14_TimeoutIsFailure ==
    [][\A p \in Procs :
        (pc[p] = "wait" /\ txs[tx_hash[p]].status \in {"pending", "dropped"} /\ pc'[p] # "wait") =>
            /\ pc'[p] = "done"
            /\ result'[p].outcome = "returned"
            /\ ~result'[p].success
            /\ result'[p].error \in {ErrTimeout, ErrNode}
            /\ txs' = txs
            /\ effects' = effects]_vars

\* The only call made returned the timeout failure for c1, and the ledger
\* holds an entry for c1.
C14_Witness ==
    /\ calls = 1
    /\ pc["w1"] = "done"
    /\ ~result["w1"].success
    /\ result["w1"].error = ErrTimeout
    /\ result["w1"].certificate_id = "c1"
    /\ Issued("c1") # {}

\* C15: one call of process_wipe_data makes at most one upload request, at
\* most one gas estimation and at most one submission, whatever step fails;
\* the node never holds more transactions than calls were started.
C15_SingleAttempt ==
    /\ \A p \in Procs :
          /\ effects[p].uploads <= 1
          /\ effects[p].estimates <= 1
          /\ effects[p].sends <= 1
    /\ Len(txs) <= calls

\* A call that failed at the last step of the ledger interaction, having made
\* each request once.
C15_Witness ==
    \E p \in Procs :
        /\ pc[p] = "done"
        /\ ~result[p].success
        /\ result[p].error = ErrTimeout
        /\ effects[p].uploads = 1
        /\ effects[p].estimates = 1
        /\ effects[p].sends = 1

\* The errors issue_certificate raises.
LedgerErrors == {ErrEstimate, ErrBalance, ErrNode, ErrTimeout, ErrFailed}

\* A call that pinned its artifact and then returned a failure of the ledger step.
PinnedThenFailed(p) ==
    /\ pc[p] = "done"
    /\ result[p].outcome = "returned"
    /\ ~result[p].success
    /\ result[p].error \in LedgerErrors
    /\ ipfs_hash[p] \notin {None, ""}

\* Ledger entries whose storage reference is h.
Referring(h) == {i \in 1..Len(txs) : txs[i].status = "ok" /\ txs[i].ipfs_hash = h}

\* C16 (as claimed): after a call that pinned its artifact returned a failure
\* of the ledger step, the artifact is still pinned, the result is the single
\* failure result, and no ledger entry refers to the artifact.
C16_OrphanedPin ==
    \A p \in Procs :
        PinnedThenFailed(p) =>
            /\ ipfs_hash[p] \in pins
            /\ result[p].keys = FailureKeys
            /\ Referring(ipfs_hash[p]) = {}

\* C16 (amended): no step ever unpins an artifact; after a call that pinned
\* its artifact returned a failure of the ledger step, the artifact is still
\* pinned and the result is the single failure result; no ledger entry refers
\* to the artifact when that call was the only one made and it submitted
\* nothing or its transaction reverted.  (After a timeout or a node error
\* during the wait the submitted transaction may be mined and refer to it.)
C16_PinKept ==
    [][/\ pins \subseteq pins'
       /\ \A p \in Procs :
            PinnedThenFailed(p)' =>
                /\ ipfs_hash'[p] \in pins'
                /\ result'[p].keys = FailureKeys
                /\ (calls' = 1 /\ (effects'[p].sends = 0 \/ result'[p].error = ErrFailed)) =>
                      Referring(ipfs_hash[p])' = {}]_vars

C16_Witness ==
    \E p \in Procs :
        /\ PinnedThenFailed(p)
        /\ calls = 1
        /\ result[p].error = ErrFailed
        /\ ipfs_hash[p] \in pins
        /\ Referring(ipfs_hash[p]) = {}

\* C17: a call whose record passed validation and that did not get a receipt
\* of status 1 returns success = false; every failure result of such a call
\* carries the certificate_id of the record and a non-empty error text, and
\* a success result is returned only with a receipt of status 1.
C17_FailureSurfaced ==
    \A p \in Procs :
        (pc[p] = "done" /\ validate_wipe_data(wipe_data[p]) = "true") =>
            /\ result[p].outcome = "returned"
            /\ receipt[p].status # 1 => ~result[p].success
            /\ result[p].success => result[p].error = ""
            /\ ~result[p].success =>
                  /\ result[p].keys = FailureKeys
                  /\ result[p].certificate_id = wipe_data[p].certificate_id.v
                  /\ result[p].error # ""
                  /\ result[p].transaction_hash = ""

\* A call for c2 returned a failure of the ledger step after it had submitted.
C17_Witness ==
    \E p \in Procs :
        /\ pc[p] = "done"
        /\ wipe_data[p] = MockWipeData("c2")
        /\ ~result[p].success
        /\ result[p].certificate_id = "c2"
        /\ result[p].error \in LedgerErrors \cup {ErrRender}
        /\ effects[p].sends = 1

\* C18 (as claimed): every result process_wipe_data returned holds the keys
\* success, certificate_id and issued_at; transaction_hash, block_number and
\* gas_used are present exactly on success, and error exactly on failure.
C18_ResultFields ==
    \A p \in Procs :
        result[p].outcome = "returned" =>
            /\ {"success", "certificate_id", "issued_at"} \subseteq result[p].keys
            /\ result[p].success <=>
                  {"transaction_hash", "block_number", "gas_used"} \subseteq result[p].keys
            /\ ~result[p].success =>
                  {"transaction_hash", "block_number", "gas_used"} \cap result[p].keys = {}
            /\ ~result[p].success <=> "error" \in result[p].keys

\* C19: the upload step never ends the call: it hands on to the ledger step
\* with no exception.  With either gateway credential absent, or with the
\* file unreadable, it makes no request, pins nothing and yields absent; it
\* yields a content identifier only after one request that pinned it.
C19_UploadNeverRaises ==
    [][\A p \in Procs :
        (pc[p] = "upload" /\ pc'[p] # "upload") =>
            /\ pc'[p] = "estimate"
            /\ result'[p] = result[p]
            /\ (~creds.pinata_api_key \/ ~creds.pinata_secret
                   \/ files[PdfFilename(wipe_data[p])] = 0) =>
                  /\ effects'[p].uploads = 0
                  /\ pins' = pins
                  /\ ipfs_hash'[p] = OrEmpty(None)
            /\ ipfs_hash'[p] # OrEmpty(None) =>
                  /\ effects'[p].uploads = 1
                  /\ ipfs_hash'[p] \in pins'
            /\ ipfs_hash'[p] = OrEmpty(None) => pins' = pins]_vars

\* One credential is configured, the other is not; the call went on to the
\* ledger step without a request and with the absent storage reference.
C19_Witness ==
    \E p \in Procs :
        /\ creds.pinata_api_key /\ ~creds.pinata_secret
        /\ pc[p] = "estimate"
        /\ effects[p].renders = 1
        /\ effects[p].uploads = 0
        /\ ipfs_hash[p] = OrEmpty(None)
        /\ pins = {}

\* Two values hold the same key/value pairs.
SameItems(x, y) ==
    {x.items[i] : i \in 1..Len(x.items)} = {y.items[i] : i \in 1..Len(y.items)}

\* C20: calculate_data_hash returns the same digest for two dicts that hold
\* the same key/value pairs, whatever the order of their keys, and the same
\* digest when it is called again with the same dict.
C20_OrderIndependent ==
    /\ (/\ hashed.first.kind = "dict" /\ hashed.second.kind = "dict"
         /\ SameItems(hashed.first, hashed.second)
         /\ hashed.digest_first.computed /\ hashed.digest_second.computed) =>
            hashed.digest_first = hashed.digest_second
    /\ (hashed.first.kind = "dict" /\ hashed.digest_again.computed) =>
            hashed.digest_again = hashed.digest_first

\* {a:1, b:2} and {b:2, a:1} have been hashed.
C20_Witness ==
    /\ hashed.first = [kind |-> "dict", items |-> <<[k |-> "a", v |-> 1], [k |-> "b", v |-> 2]>>]
    /\ hashed.second = [kind |-> "dict", items |-> <<[k |-> "b", v |-> 2], [k |-> "a", v |-> 1]>>]
    /\ hashed.digest_first.computed
    /\ hashed.digest_second.computed
    /\ hashed.digest_again.computed
    /\ hashed.digest_first = hashed.digest_second

\* C21 (as claimed): while a call is at its upload step, the file it rendered
\* is the file in the working directory: no other call has overwritten or
\* deleted it.
C21_ArtifactOwned ==
    \A p \in Procs :
        pc[p] = "upload" => files[PdfFilename(wipe_data[p])] = callNo[p]

\* The step that follows each step of process_wipe_data.
Successor ==
    [render |-> "upload", upload |-> "estimate", estimate |-> "afford", afford |-> "build",
     build |-> "send", send |-> "wait", wait |-> "exists", exists |-> "remove",
     remove |-> "done", idle |-> "render", done |-> "render"]

\* C22: a call moves from each step to the next one only, or ends; a call has
\* estimated only after rendering and after the upload step set the storage
\* reference, read the balance only after estimating, read the nonce only
\* after reading the balance, submitted only after reading the nonce, and
\* waits only for a transaction it submitted; a call whose record is rejected
\* by validation renders, uploads, estimates and submits nothing.
C22_FixedOrder ==
    [][\A p \in Procs :
        /\ pc'[p] # pc[p] => pc'[p] \in {Successor[pc[p]], "done"}
        /\ effects'[p].uploads > 0 => effects'[p].renders = 1
        /\ effects'[p].estimates > 0 => effects'[p].renders = 1 /\ ipfs_hash'[p] # None
        /\ effects'[p].balances > 0 => effects'[p].estimates = 1
        /\ effects'[p].nonces > 0 => effects'[p].balances = 1
        /\ effects'[p].sends > 0 => effects'[p].nonces = 1
        /\ pc'[p] \in {"wait", "exists", "remove"} => effects'[p].sends = 1
        /\ receipt'[p] # NoReceipt => effects'[p].sends = 1
        /\ (pc'[p] # "idle" /\ Rejected(wipe_data'[p])) =>
              pc'[p] = "done" /\ effects'[p] = NoEffects]_vars

\* A call waits for its transaction, having made each earlier step once.
C22_Witness ==
    \E p \in Procs :
        /\ pc[p] = "wait"
        /\ effects[p] = [renders |-> 1, uploads |-> 1, estimates |-> 1, balances |-> 1,
                         nonces |-> 1, sends |-> 1]
        /\ tx_hash[p] # 0

\* C23: the transaction a call builds carries as gas limit the gas estimate
\* that call obtained plus 50000, and it is that transaction, unchanged, the
\* call submits.
C23_GasLimit ==
    [][\A p \in Procs :
        /\ (pc[p] = "build" /\ pc'[p] = "send") =>
              /\ quote[p].gas_estimate \in GasEstimates
              /\ transaction'[p].gas = quote[p].gas_estimate + 50000
        /\ (pc[p] = "send" /\ pc'[p] = "send") => transaction'[p] = transaction[p]
        /\ (pc[p] = "send" /\ pc'[p] = "wait") =>
              /\ transaction[p].gas - 50000 \in GasEstimates
              /\ txs'[tx_hash'[p]].nonce = transaction[p].nonce]_vars

\* A call with the estimate 3 built its transaction with the gas limit 50003.
C23_Witness ==
    \E p \in Procs :
        /\ pc[p] = "send"
        /\ transaction[p].gas = 50003
        /\ effects[p].estimates = 1

\* C24: a call whose record passes validation goes on to rendering whether or
\* not the ledger already holds an entry for its certificate_id, and the
\* transaction a call submits carries the certificate_id of its record; the
\* steps of a call make no query of the read path.
C24_NoUniquenessCheck ==
    [][\A p \in Procs :
        /\ (callNo'[p] # callNo[p] /\ validate_wipe_data(wipe_data'[p]) = "true") =>
              pc'[p] = "render"
        /\ (pc[p] = "send" /\ pc'[p] = "wait") =>
              txs'[tx_hash'[p]].certificate_id = wipe_data[p].certificate_id.v
        /\ pc'[p] # pc[p] => reads' = reads]_vars

\* The ledger holds an entry for an identifier, and a call that read its nonce
\* after that entry was mined submitted a transaction for the same identifier.
C24_Witness ==
    \E p \in Procs :
        /\ pc[p] = "wait"
        /\ Issued(txs[tx_hash[p]].certificate_id) # {}
        /\ txs[tx_hash[p]].status = "pending"
        /\ \E i \in Issued(txs[tx_hash[p]].certificate_id) : txs[i].nonce < txs[tx_hash[p]].nonce

\* C25 (as claimed): every call of process_wipe_data that was started
\* eventually ends by returning a result record.
C25_EveryCallReturns ==
    \A p \in Procs : \A n \in 1..MaxCalls :
        (callNo[p] = n) ~> (callNo[p] = n /\ pc[p] = "done" /\ result[p].outcome = "returned")

\* C26 (as claimed): the balance a call checked is at least the gas limit times
\* the gas price of the transaction it builds for submission.
C26_BalanceCoversMaxCost ==
    [][\A p \in Procs :
        (pc[p] = "build" /\ pc'[p] = "send") =>
            balance_eth[p].wei >= transaction'[p].gas * transaction'[p].gasPrice]_vars

\* C26 (amended): the balance a call checked is at least the estimated cost,
\* the gas estimate times the gas price read with the estimate; the call
\* goes on to build its transaction with that balance.  (The margin added to
\* the gas limit and the gas price read when the transaction is built are not
\* covered by the check.)
C26_BalanceCoversEstimate ==
    [][\A p \in Procs :
        (pc[p] = "afford" /\ pc'[p] = "build") =>
            /\ balance_eth'[p].wei >= quote[p].cost_eth.wei
            /\ \E price \in GasPrices : quote[p].cost_eth.wei = quote[p].gas_estimate * price
            /\ quote'[p].gas_estimate = quote[p].gas_estimate]_vars

\* A call passed the check with a balance that covers the estimated cost and
\* not the gas limit it will submit.
C26_Witness ==
    \E p \in Procs :
        /\ pc[p] = "build"
        /\ balance_eth[p].wei = 3
        /\ quote[p].gas_estimate = 2
        /\ balance_eth[p].wei < quote[p].gas_estimate + GasBuffer

\* C27 (as claimed): when one thread alone makes its calls one after the
\* other, the transaction a call submits never carries the nonce of an
\* earlier transaction that is still pending.
C27_FreshNonce ==
    [][\A p \in Procs :
        (/\ \A q \in Procs \ {p} : callNo[q] = 0
         /\ pc[p] = "send"
         /\ pc'[p] = "wait") =>
            PendingWithNonce(transaction[p].nonce) = {}]_vars

\* C28: the 'valid' flag of a verification result is true exactly when the
\* ledger query answered and reported exists = true, whatever the validity
\* flag of the entry; for a revoked entry the result holds valid = true and a
\* verification_result with is_valid = false.
C28_ValidMeansExists ==
    view.query # "none" =>
        /\ view.result.outcome = "returned"
        /\ view.result.valid <=> (view.query = "ok" /\ view.answer.exists)
        /\ (view.query = "ok" /\ view.answer.exists /\ ~view.answer.isValid) =>
              /\ view.result.valid
              /\ "verification_result" \in view.result.keys
              /\ ~view.result.verification_result.is_valid

\* A revoked certificate was verified: valid = true, is_valid = false.
C28_Witness ==
    /\ view.query = "ok"
    /\ view.certificate_id \in revoked
    /\ view.result.valid
    /\ view.result.keys = VerifiedKeys
    /\ ~view.result.verification_result.is_valid

\* C29 (as claimed): every call of process_wipe_data that has ended returned
\* a result record holding a success flag; no exception left the call.
C29_NeverRaises ==
    \A p \in Procs :
        pc[p] = "done" =>
            /\ result[p].outcome = "returned"
            /\ "success" \in result[p].keys

\* C30 (as claimed): validate_wipe_data accepts a record exactly when the
\* five required keys are present, device_details.serial is a non-empty
\* string and success is the boolean true; it accepts no record whose
\* timestamp_utc or status is empty.
C30_AcceptsExactly ==
    validated.verdict # "none" =>
        LET wd == validated.wipe_data IN
        /\ validated.verdict = "true" <=>
              /\ wd.kind = "dict"
              /\ \A i \in 1..Len(RequiredFields) : HasField(wd, RequiredFields[i])
              /\ wd.device_details.t = "dict"
              /\ wd.device_details.serial.t = "str" /\ wd.device_details.serial.v # ""
              /\ wd.success = PyBool(TRUE)
        /\ validated.verdict = "true" =>
              /\ wd.timestamp_utc # PyStr("")
              /\ wd.status # PyStr("")

====
